---- MODULE Spec2Model ----
(***************************************************************************)
(* A model of the WeChat dialogue-platform callback backend, in its two    *)
(* variants src/app.py and src/qpp.py: signature check, JSON parsing,      *)
(* query extraction, the completion client and the callback handler.       *)
(*                                                                         *)
(* Text is a sequence of characters.  A character is a one-element string; *)
(* a character outside ASCII is written by its code point ("U4F60"), so a  *)
(* sequence's length is the length of the Python str it stands for.        *)
(***************************************************************************)
EXTENDS Integers, Sequences, FiniteSets, TLC

VARIABLES
    impl,             \* which variant runs: "app" (src/app.py) or "qpp" (src/qpp.py)
    WEBHOOK_SECRET,   \* module configuration, read once at import
    OPENAI_API_KEY,
    MAX_REPLY_LEN,
    pc,               \* per request: the handler's position
    stream,           \* per request: the unread bytes of the request's input stream
    cached_data,      \* per request: werkzeug's _cached_data ([set, v])
    sig_header,       \* per request: the X-Signature header ([present, v])
    raw,              \* per request: local `raw`
    body,             \* per request: local `body`
    user_query,       \* per request: local `user_query`
    answer,           \* per request: local `answer`
    upstream,         \* per request: what the completion endpoint did with the call
    response,         \* per request: the HTTP response sent
    endpoint,         \* the outcomes the completion endpoint may produce
    trace             \* per request: the steps the handler has taken, in order

vars == <<impl, WEBHOOK_SECRET, OPENAI_API_KEY, MAX_REPLY_LEN, pc, stream, cached_data,
          sig_header, raw, body, user_query, answer, upstream, response, endpoint, trace>>

config == <<impl, WEBHOOK_SECRET, OPENAI_API_KEY, MAX_REPLY_LEN>>

(***************************************************************************)
(* Bounds of the model.                                                    *)
(***************************************************************************)
\* Number of callback requests in flight at once in SpecConc.
NReq == 2

Reqs == 1..NReq

(***************************************************************************)
(* Text.                                                                   *)
(***************************************************************************)
Min(a, b) == IF a < b THEN a ELSE b

Max(a, b) == IF a > b THEN a ELSE b

\* A slice that cuts nothing.
SliceUncut(s, n) == s

\* Python's s[:n]: the first n characters, or all but the last -n when n < 0.
Slice(s, n) ==
    IF n >= 0 THEN SubSeq(s, 1, Min(n, Len(s)))
    ELSE SubSeq(s, 1, Max(0, Len(s) + n))

IsPrefix(p, s) == Len(p) <= Len(s) /\ SubSeq(s, 1, Len(p)) = p

\* str.strip() removes these from both ends.
Whitespace == {" ", "\t", "\n", "\r"}

RECURSIVE LStrip(_)
LStrip(s) ==
    IF s # <<>> /\ Head(s) \in Whitespace THEN LStrip(Tail(s)) ELSE s

RECURSIVE RStrip(_)
RStrip(s) ==
    IF s # <<>> /\ s[Len(s)] \in Whitespace THEN RStrip(SubSeq(s, 1, Len(s) - 1)) ELSE s

Strip(s) == RStrip(LStrip(s))

\* The characters Python's str holds beyond ASCII, by code point.
NonAscii == {"U00E9", "U4F60", "U8BF4", "U7684", "U662F", "UFF1A", "UFF08", "UFF09",
             "U65E0", "U56DE", "U590D", "U8C03", "U7528", "U5927", "U6A21", "U578B",
             "U5931", "U8D25", "U6CA1", "U6709", "U62FF", "U5230", "U8F93", "U5165",
             "U672A", "U914D", "U7F6E"}

IsAscii(s) == \A i \in 1..Len(s) : s[i] \notin NonAscii

RECURSIVE Join(_, _)
\* sep.join(parts)
Join(parts, sep) ==
    IF parts = <<>> THEN <<>>
    ELSE IF Len(parts) = 1 THEN parts[1]
    ELSE parts[1] \o sep \o Join(Tail(parts), sep)

(***************************************************************************)
(* JSON values.  A value is a record [t, n, s, o]: t is the JSON type,     *)
(* n the number (or 0/1 for a bool, or the length of an array of ones),    *)
(* s the text of a string and o the members of an object.  "absent" is a   *)
(* missing key, which dict.get turns into None.                            *)
(***************************************************************************)
Leaf(t, n, s) == [t |-> t, n |-> n, s |-> s]

AbsentLeaf == Leaf("absent", 0, <<>>)

NullLeaf == Leaf("null", 0, <<>>)

NumLeaf(n) == Leaf("num", n, <<>>)

BoolLeaf(b) == Leaf("bool", IF b THEN 1 ELSE 0, <<>>)

StrLeaf(s) == Leaf("str", 0, s)

ArrLeaf(n) == Leaf("arr", n, <<>>)

\* The keys of a nested object (message, nlpResult), in document order.
InnerKeys == <<"id", "text">>

NoInner == [id |-> AbsentLeaf, text |-> AbsentLeaf]

\* A value one level below the payload: a leaf, or an object of leaves.
Val(leaf) == [t |-> leaf.t, n |-> leaf.n, s |-> leaf.s, o |-> NoInner]

ObjVal(id, text) == [t |-> "obj", n |-> 0, s |-> <<>>, o |-> [id |-> id, text |-> text]]

AbsentVal == Val(AbsentLeaf)

\* The keys of a payload, in document order.
PayloadKeys == <<"query", "text", "content", "message", "nlpResult">>

NoMembers ==
    [query |-> AbsentVal, text |-> AbsentVal, content |-> AbsentVal,
     message |-> AbsentVal, nlpResult |-> AbsentVal]

\* A document: a leaf at top level, or an object (the payload).
Doc(leaf) == [t |-> leaf.t, n |-> leaf.n, s |-> leaf.s, p |-> NoMembers]

Payload(q, t, c, m, nl) ==
    [t |-> "obj", n |-> 0, s |-> <<>>,
     p |-> [query |-> q, text |-> t, content |-> c, message |-> m, nlpResult |-> nl]]

EmptyObject == Payload(AbsentVal, AbsentVal, AbsentVal, AbsentVal, AbsentVal)

NoDoc == Doc(AbsentLeaf)

\* Python truthiness of a parsed value, as `x or {}` tests it.
TruthyLeaf(v) ==
    CASE v.t = "absent" -> FALSE
      [] v.t = "null" -> FALSE
      [] v.t = "bool" -> v.n = 1
      [] v.t = "num" -> v.n # 0
      [] v.t = "str" -> v.s # <<>>
      [] v.t = "arr" -> v.n > 0
      [] OTHER -> FALSE

TruthyVal(v) ==
    IF v.t = "obj" THEN \E k \in DOMAIN v.o : v.o[k].t # "absent" ELSE TruthyLeaf(v)

TruthyDoc(d) ==
    IF d.t = "obj" THEN \E k \in DOMAIN d.p : d.p[k].t # "absent" ELSE TruthyLeaf(d)

(***************************************************************************)
(* json.dumps(value, ensure_ascii=False): separators ", " and ": ", keys   *)
(* in document order, '"' and '\' escaped inside strings.                  *)
(***************************************************************************)
Digit(n) == <<"0", "1", "2", "3", "4", "5", "6", "7", "8", "9">>[n + 1]

RECURSIVE DumpsInt(_)
DumpsInt(n) == IF n < 10 THEN <<Digit(n)>> ELSE DumpsInt(n \div 10) \o <<Digit(n % 10)>>

EscapeChar(c) ==
    CASE c = "\"" -> <<"\\", "\"">>
      [] c = "\\" -> <<"\\", "\\">>
      [] c = "\t" -> <<"\\", "t">>
      [] c = "\n" -> <<"\\", "n">>
      [] c = "\r" -> <<"\\", "r">>
      [] OTHER -> <<c>>

RECURSIVE EscapeRange(_, _, _)
\* The escaped form of s[lo..hi], by halves (a long text keeps the recursion shallow).
EscapeRange(s, lo, hi) ==
    IF lo > hi THEN <<>>
    ELSE IF lo = hi THEN EscapeChar(s[lo])
    ELSE LET mid == (lo + hi) \div 2
         IN  EscapeRange(s, lo, mid) \o EscapeRange(s, mid + 1, hi)

Escape(s) == EscapeRange(s, 1, Len(s))

DumpsStr(s) == <<"\"">> \o Escape(s) \o <<"\"">>

KeyChars(k) ==
    CASE k = "id" -> <<"i", "d">>
      [] k = "text" -> <<"t", "e", "x", "t">>
      [] k = "query" -> <<"q", "u", "e", "r", "y">>
      [] k = "content" -> <<"c", "o", "n", "t", "e", "n", "t">>
      [] k = "message" -> <<"m", "e", "s", "s", "a", "g", "e">>
      [] k = "nlpResult" -> <<"n", "l", "p", "R", "e", "s", "u", "l", "t">>

DumpsLeaf(v) ==
    CASE v.t = "null" -> <<"n", "u", "l", "l">>
      [] v.t = "bool" -> IF v.n = 1 THEN <<"t", "r", "u", "e">> ELSE <<"f", "a", "l", "s", "e">>
      [] v.t = "num" -> DumpsInt(v.n)
      [] v.t = "str" -> DumpsStr(v.s)
      [] v.t = "arr" -> <<"[">> \o Join([i \in 1..v.n |-> <<"1">>], <<",", " ">>) \o <<"]">>

RECURSIVE InnerItems(_, _)
\* The "key": value items of a nested object's members that are present.
InnerItems(keys, members) ==
    IF keys = <<>> THEN <<>>
    ELSE LET k == Head(keys)
             rest == InnerItems(Tail(keys), members)
         IN  IF members[k].t = "absent" THEN rest
             ELSE <<DumpsStr(KeyChars(k)) \o <<":", " ">> \o DumpsLeaf(members[k])>> \o rest

DumpsVal(v) ==
    IF v.t = "obj"
    THEN <<"{">> \o Join(InnerItems(InnerKeys, v.o), <<",", " ">>) \o <<"}">>
    ELSE DumpsLeaf(v)

RECURSIVE PayloadItems(_, _)
\* The "key": value items of the payload's members that are present.
PayloadItems(keys, members) ==
    IF keys = <<>> THEN <<>>
    ELSE LET k == Head(keys)
             rest == PayloadItems(Tail(keys), members)
         IN  IF members[k].t = "absent" THEN rest
             ELSE <<DumpsStr(KeyChars(k)) \o <<":", " ">> \o DumpsVal(members[k])>> \o rest

Dumps(d) ==
    IF d.t = "obj"
    THEN <<"{">> \o Join(PayloadItems(PayloadKeys, d.p), <<",", " ">>) \o <<"}">>
    ELSE DumpsLeaf(d)

(***************************************************************************)
(* extract_user_query.  A result is [exc, v]: exc names the exception that *)
(* left the function ("" when it returned) and v is the value returned.    *)
(***************************************************************************)
Returned(v) == [exc |-> "", v |-> v]

Raised(e) == [exc |-> e, v |-> <<>>]

\* (payload.get(key) or {}).get("text"): [exc, leaf]
NestedText(parent) ==
    IF ~TruthyVal(parent) THEN [exc |-> "", leaf |-> AbsentLeaf]
    ELSE IF parent.t = "obj" THEN [exc |-> "", leaf |-> parent.o.text]
    ELSE [exc |-> "AttributeError", leaf |-> AbsentLeaf]

\* payload.get(key) for a top-level candidate, seen as a leaf (an object is no str).
TopLevel(v) == IF v.t = "obj" THEN Leaf("obj", 0, <<>>) ELSE Leaf(v.t, v.n, v.s)

\* The order in which the two nested candidates enter the candidate list.
NestedOrder(variant) ==
    IF variant = "app" THEN <<"message", "nlpResult">> ELSE <<"nlpResult", "message">>

\* A test that forgets `and c.strip()`.
QualifiesAnyStr(c) == c.t = "str"

\* isinstance(c, str) and c.strip()
Qualifies(c) == c.t = "str" /\ Strip(c.s) # <<>>

RECURSIVE FirstQualifying(_)
\* for c in candidates: if isinstance(c, str) and c.strip(): return c.strip()
FirstQualifying(cands) ==
    IF cands = <<>> THEN [found |-> FALSE, v |-> <<>>]
    ELSE IF Qualifies(Head(cands)) THEN [found |-> TRUE, v |-> Strip(Head(cands).s)]
    ELSE FirstQualifying(Tail(cands))

extract_user_query(variant, payload) ==
    IF payload.t # "obj" THEN Raised("AttributeError")
    ELSE
    LET ord == NestedOrder(variant)
        n1 == NestedText(payload.p[ord[1]])
        n2 == NestedText(payload.p[ord[2]])
        candidates == <<TopLevel(payload.p.query), TopLevel(payload.p.text),
                        TopLevel(payload.p.content), n1.leaf, n2.leaf>>
        hit == FirstQualifying(candidates)
    IN  IF n1.exc # "" THEN Raised(n1.exc)
        ELSE IF n2.exc # "" THEN Raised(n2.exc)
        ELSE IF hit.found THEN Returned(hit.v)
        ELSE Returned(Dumps(payload))

(***************************************************************************)
(* Module configuration (the environment is read once, at import).         *)
(***************************************************************************)
\* extract_user_query(...)[:2000]
QueryMaxLen == 2000

\* answer[:1500] in qpp.py; the default of MAX_REPLY_LEN in app.py
QppReplyLen == 1500

\* WEBHOOK_SECRET as the variant reads it from the environment value `env`.
ReadSecret(variant, env) == IF variant = "app" THEN Strip(env) ELSE env

\* OPENAI_API_KEY as the variant reads it (qpp.py's None, for an unset variable,
\* is the empty text here: the code only tests it for truth).
ReadApiKey(variant, env) == IF variant = "app" THEN Strip(env) ELSE env

\* The limit the variant cuts the answer to.
ReplyLimit == IF impl = "app" THEN MAX_REPLY_LEN ELSE QppReplyLen

(***************************************************************************)
(* verify_signature.  hmac.new(key, msg, sha256).hexdigest() is modelled   *)
(* by a keyed digest of the same shape: 64 lowercase hex characters that   *)
(* depend on every character of the key and of the message.                *)
(***************************************************************************)
HexDigestLen == 64

HexChars == <<"0", "1", "2", "3", "4", "5", "6", "7", "8", "9", "a", "b", "c", "d", "e", "f">>

CodeTable == <<" ", "\"", "{", "}", "[", "]", ":", ",", "a", "b", "k", "m", "n", "q", "x",
               "t", "e", "u", "r", "y", "s", "g", "l", "p", "R", "c", "o", "i", "d", "h",
               "0", "1", "7">>

CharCode(c) ==
    IF \E i \in 1..Len(CodeTable) : CodeTable[i] = c
    THEN CHOOSE i \in 1..Len(CodeTable) : CodeTable[i] = c
    ELSE Len(CodeTable) + 1

RECURSIVE MixRange(_, _, _)
\* A position-weighted checksum of s[lo..hi], by halves.
MixRange(s, lo, hi) ==
    IF lo > hi THEN 0
    ELSE IF lo = hi THEN (CharCode(s[lo]) * ((lo % 251) + 1)) % 65521
    ELSE LET mid == (lo + hi) \div 2
         IN  (MixRange(s, lo, mid) + MixRange(s, mid + 1, hi)) % 65521

Mix(h, s) == (h * 31 + Len(s) + MixRange(s, 1, Len(s))) % 65521

Hmac(key, msg) ==
    LET k == Mix(7, key)
        h == Mix(k, msg)
    IN  [i \in 1..HexDigestLen |-> HexChars[((h + i * (k + i)) % 16) + 1]]

\* hmac.compare_digest(a, b) on two str: TypeError unless both are ASCII.
compare_digest(a, b) ==
    IF IsAscii(a) /\ IsAscii(b) THEN [exc |-> "", ok |-> a = b]
    ELSE [exc |-> "TypeError", ok |-> FALSE]

\* headers.get("X-Signature", "")
HeaderGet(hdr) == IF hdr.present THEN hdr.v ELSE <<>>

verify_signature(raw_body, hdr) ==
    IF WEBHOOK_SECRET = <<>> THEN [exc |-> "", ok |-> TRUE]
    ELSE LET recv_sig == HeaderGet(hdr)
         IN  IF recv_sig = <<>> THEN [exc |-> "", ok |-> FALSE]
             ELSE compare_digest(Hmac(WEBHOOK_SECRET, raw_body), recv_sig)

(***************************************************************************)
(* The completion client.  An upstream outcome is [kind, shape, content]:  *)
(* what requests.post met (kind) and, for a 2xx JSON body, its shape.      *)
(***************************************************************************)
EchoPrefix == <<"U4F60", "U8BF4", "U7684", "U662F", "UFF1A">>

NoReplyText == <<"UFF08", "U65E0", "U56DE", "U590D", "UFF09">>

FailPrefix == <<"U8C03", "U7528", "U5927", "U6A21", "U578B", "U5931", "U8D25", "UFF1A">>

NoInputText == <<"UFF08", "U6CA1", "U6709", "U62FF", "U5230", "U8F93", "U5165", "UFF09">>

NotConfiguredText ==
    <<"U672A", "U914D", "U7F6E", " ", "O", "P", "E", "N", "A", "I", "_", "A", "P", "I", "_",
      "K", "E", "Y">>

Outcome(kind, shape, content) == [kind |-> kind, shape |-> shape, content |-> content]

NoOutcome == Outcome("none", "", <<>>)

\* The exceptions of the requests library; every other name is a builtin exception.
RequestsExceptions == {"Timeout", "ConnectionError", "HTTPError", "JSONDecodeError"}

\* str(e)
ExcText(e) ==
    CASE e = "Timeout" -> <<"t", "i", "m", "e", "d", " ", "o", "u", "t">>
      [] e = "ConnectionError" -> <<"r", "e", "f", "u", "s", "e", "d">>
      [] e = "HTTPError" -> <<"5", "0", "0", " ", "S", "e", "r", "v", "e", "r", " ", "E", "r", "r", "o", "r">>
      [] e = "JSONDecodeError" -> <<"E", "x", "p", "e", "c", "t", "i", "n", "g", " ", "v", "a", "l", "u", "e">>
      [] e = "IndexError" -> <<"l", "i", "s", "t", " ", "i", "n", "d", "e", "x">>
      [] e = "TypeError" -> <<"n", "o", "t", " ", "s", "u", "b", "s", "c", "r", "i", "p", "t", "a", "b", "l", "e">>
      [] OTHER -> <<"n", "o", " ", "a", "t", "t", "r", "i", "b", "u", "t", "e">>

\* The body of ask_openai's try: post, raise_for_status, json, the chain of lookups.
TryCompletion(up) ==
    CASE up.kind = "timeout" -> Raised("Timeout")
      [] up.kind = "transport" -> Raised("ConnectionError")
      [] up.kind = "status" -> Raised("HTTPError")
      [] up.kind = "not_json" -> Raised("JSONDecodeError")
      [] up.kind = "json" ->
            CASE up.shape = "array" -> Raised("AttributeError")
              [] up.shape = "no_choices" -> Returned(NoReplyText)
              [] up.shape = "choices_null" -> Raised("TypeError")
              [] up.shape = "choices_empty" -> Raised("IndexError")
              [] up.shape = "choice_empty" -> Returned(NoReplyText)
              [] up.shape = "message_null" -> Raised("AttributeError")
              [] up.shape = "content_null" -> Raised("AttributeError")
              [] up.shape = "content_number" -> Raised("AttributeError")
              [] up.shape = "content" ->
                    Returned(IF Strip(up.content) = <<>> THEN NoReplyText ELSE Strip(up.content))

\* A handler that catches only what the requests library raises.
CaughtRequestsOnly(e) == e \in RequestsExceptions

\* except Exception: every exception the try can raise derives from Exception.
Caught(e) == TRUE

\* ask_openai once the endpoint has answered with `up` (the key is configured).
CompletionResult(up) ==
    LET r == TryCompletion(up)
    IN  IF r.exc = "" THEN r
        ELSE IF Caught(r.exc) THEN Returned(FailPrefix \o ExcText(r.exc))
        ELSE r

\* ask_openai without a key (app.py only): the echo.
Echo(prompt) == EchoPrefix \o prompt

(***************************************************************************)
(* The inputs of the model: request bodies, headers, upstream outcomes.    *)
(***************************************************************************)
\* A text longer than QueryMaxLen and one longer than QppReplyLen.
LongQuery == [i \in 1..(QueryMaxLen + 3) |-> "a"]

LongContent == [i \in 1..(QppReplyLen + 2) |-> IF i = 1 THEN " " ELSE "b"]

S(leaf) == Val(leaf)

\* The documents a request body may hold.
ObjectDocs ==
    { EmptyObject,
      Payload(S(StrLeaf(<<" ", "q", " ">>)), AbsentVal, AbsentVal, AbsentVal, AbsentVal),
      Payload(AbsentVal, S(StrLeaf(<<"a">>)), AbsentVal, AbsentVal, AbsentVal),
      Payload(AbsentVal, S(StrLeaf(<<" ">>)), AbsentVal, AbsentVal, AbsentVal),
      Payload(S(NumLeaf(7)), AbsentVal, S(StrLeaf(<<"\"">>)), AbsentVal, AbsentVal),
      Payload(AbsentVal, AbsentVal, AbsentVal, ObjVal(AbsentLeaf, StrLeaf(<<"m">>)),
              ObjVal(AbsentLeaf, StrLeaf(<<"n">>))),
      Payload(AbsentVal, AbsentVal, AbsentVal, S(StrLeaf(<<"x">>)), AbsentVal),
      Payload(AbsentVal, S(StrLeaf(<<"a">>)), AbsentVal, AbsentVal, S(ArrLeaf(1))),
      Payload(S(StrLeaf(LongQuery)), AbsentVal, AbsentVal, AbsentVal, AbsentVal) }

NonObjectDocs ==
    { Doc(NullLeaf), Doc(NumLeaf(0)), Doc(NumLeaf(7)), Doc(BoolLeaf(TRUE)),
      Doc(StrLeaf(<<>>)), Doc(StrLeaf(<<"h">>)), Doc(ArrLeaf(0)), Doc(ArrLeaf(1)) }

JsonDocs == ObjectDocs \cup NonObjectDocs

\* The serialization of each document of the model.
DumpTable == [d \in JsonDocs |-> Dumps(d)]

\* Bodies json.loads rejects: empty, truncated, not JSON at all.
MalformedBodies == { <<>>, <<"{">>, <<"h", "i">> }

RawBodies == { DumpTable[d] : d \in JsonDocs } \cup MalformedBodies

Header(present, v) == [present |-> present, v |-> v]

\* The digest with its last character changed.
Flip(mac) == [mac EXCEPT ![Len(mac)] = IF @ = "0" THEN "1" ELSE "0"]

\* The X-Signature headers tried against a body: none, empty, the digest, and
\* near misses (one character off, one short, one long, not ASCII).
SigHeaders(secret, data) ==
    LET mac == Hmac(secret, data)
    IN  { Header(FALSE, <<>>), Header(TRUE, <<>>), Header(TRUE, mac),
          Header(TRUE, Flip(mac)), Header(TRUE, SubSeq(mac, 1, Len(mac) - 1)),
          Header(TRUE, mac \o <<"0">>), Header(TRUE, <<"U00E9">>) }

Outcomes ==
    { Outcome("timeout", "", <<>>), Outcome("transport", "", <<>>),
      Outcome("status", "", <<>>), Outcome("not_json", "", <<>>),
      Outcome("json", "array", <<>>), Outcome("json", "no_choices", <<>>),
      Outcome("json", "choices_null", <<>>), Outcome("json", "choices_empty", <<>>),
      Outcome("json", "choice_empty", <<>>), Outcome("json", "message_null", <<>>),
      Outcome("json", "content_null", <<>>), Outcome("json", "content_number", <<>>),
      Outcome("json", "content", <<" ">>), Outcome("json", "content", <<" ", "h", "i", " ">>),
      Outcome("json", "content", LongContent) }

\* The values of MAX_REPLY_LEN tried in app.py: int() accepts any integer.
ReplyLens == { -1, 0, 3, QppReplyLen }

\* json.loads, as the inverse of json.dumps on the documents of the model.
json_loads(data) ==
    IF \E d \in JsonDocs : DumpTable[d] = data
    THEN [ok |-> TRUE, doc |-> CHOOSE d \in JsonDocs : DumpTable[d] = data]
    ELSE [ok |-> FALSE, doc |-> NoDoc]

(***************************************************************************)
(* HTTP responses.                                                         *)
(***************************************************************************)
NoResponse == [status |-> 0, kind |-> "none", msg |-> "", text |-> <<>>, echo |-> <<>>]

\* jsonify({"code": code, "msg": msg}), code
JsonError(code, msg) ==
    [status |-> code, kind |-> "error", msg |-> msg, text |-> <<>>, echo |-> <<>>]

\* jsonify({"text": text}) in app.py; with "meta": {"echo", "model"} in qpp.py
TextReply(variant, text, echo) ==
    [status |-> 200, kind |-> "text", msg |-> "", text |-> text,
     echo |-> IF variant = "qpp" THEN echo ELSE <<>>]

\* An exception left wechat_callback: Flask logs it and answers its own
\* "500 Internal Server Error" page, which is HTML, not JSON.
Unhandled(exc) ==
    [status |-> 500, kind |-> "unhandled", msg |-> exc, text |-> <<>>, echo |-> <<>>]

(***************************************************************************)
(* wechat_callback, one action per step of request r.                      *)
(***************************************************************************)
NoCache == [set |-> FALSE, v |-> <<>>]

\* request.get_data(): the cached bytes if any, else whatever is left of the stream.
DataRead(r) == IF cached_data[r].set THEN cached_data[r].v ELSE stream[r]

\* The effect of request.get_data(cache=cache) on the request object.
DataEffect(r, cache) ==
    /\ stream' = [stream EXCEPT ![r] = IF cached_data[r].set THEN @ ELSE <<>>]
    /\ cached_data' =
          [cached_data EXCEPT
              ![r] = IF ~cached_data[r].set /\ cache THEN [set |-> TRUE, v |-> stream[r]] ELSE @]

\* cache=False in app.py, the default (True) in qpp.py.  Without the cache the
\* bytes read for the signature are gone from the stream when get_json reads
\* it again: app.py then parses the empty body.
RawCache == impl = "qpp"

Finish(r, resp) ==
    /\ response' = [response EXCEPT ![r] = resp]
    /\ pc' = [pc EXCEPT ![r] = "done"]

Step(r, name) == trace' = [trace EXCEPT ![r] = Append(@, name)]

\* raw = request.get_data(...)
GetData(r) ==
    /\ pc[r] = "start"
    /\ raw' = [raw EXCEPT ![r] = DataRead(r)]
    /\ DataEffect(r, RawCache)
    /\ pc' = [pc EXCEPT ![r] = "verify"]
    /\ Step(r, "get_data")
    /\ UNCHANGED <<config, endpoint, sig_header, body, user_query, answer, upstream, response>>

\* if not verify_signature(raw, request.headers): return 401
Verify(r) ==
    /\ pc[r] = "verify"
    /\ LET v == verify_signature(raw[r], sig_header[r])
       IN  IF v.exc # "" THEN Finish(r, Unhandled(v.exc))
           ELSE IF ~v.ok THEN Finish(r, JsonError(401, "invalid signature"))
           ELSE /\ pc' = [pc EXCEPT ![r] = "parse"]
                /\ UNCHANGED response
    /\ Step(r, "verify_signature")
    /\ UNCHANGED <<config, endpoint, stream, cached_data, sig_header, raw, body, user_query, answer,
                   upstream>>

\* body = request.get_json(force=True, silent=...) or {}
\* get_json reads the body through get_data(cache=True).  app.py (silent=True)
\* turns a body that does not parse into None, hence {}; qpp.py answers 400.
\* app.py's log.info of the body writes a log line and no state.
Parse(r) ==
    /\ pc[r] = "parse"
    /\ LET parsed == json_loads(DataRead(r))
           value == IF parsed.ok /\ TruthyDoc(parsed.doc) THEN parsed.doc ELSE EmptyObject
       IN  IF ~parsed.ok /\ impl = "qpp"
           THEN /\ Finish(r, JsonError(400, "bad json"))
                /\ UNCHANGED body
           ELSE /\ body' = [body EXCEPT ![r] = value]
                /\ pc' = [pc EXCEPT ![r] = "extract"]
                /\ UNCHANGED response
    /\ DataEffect(r, TRUE)
    /\ Step(r, "get_json")
    /\ UNCHANGED <<config, endpoint, sig_header, raw, user_query, answer, upstream>>

\* user_query = extract_user_query(body)[:2000]; if not user_query: return ...
Extract(r) ==
    /\ pc[r] = "extract"
    /\ LET q == extract_user_query(impl, body[r])
           cut == Slice(q.v, QueryMaxLen)
       IN  IF q.exc # ""
           THEN /\ Finish(r, Unhandled(q.exc))
                /\ UNCHANGED user_query
           ELSE /\ user_query' = [user_query EXCEPT ![r] = cut]
                /\ IF cut = <<>>
                   THEN Finish(r, IF impl = "app" THEN TextReply(impl, NoInputText, <<>>)
                                  ELSE JsonError(400, "empty query"))
                   ELSE /\ pc' = [pc EXCEPT ![r] = "ask"]
                        /\ UNCHANGED response
    /\ Step(r, "extract_user_query")
    /\ UNCHANGED <<config, endpoint, stream, cached_data, sig_header, raw, body, answer, upstream>>

\* A prompt kept in one module-level variable: the last query any request extracted.
PromptShared(r) ==
    LET others == { q \in Reqs : q # r /\ pc[q] # "unused" }
    IN  IF others = {} THEN user_query[r] ELSE user_query[CHOOSE q \in others : TRUE]

\* The prompt handed to the completion step.
Prompt(r) == user_query[r]

\* No key: app.py's ask_openai echoes the prompt (cut later like any answer);
\* qpp.py answers the fixed text, which it does not cut.
AskUnconfigured(r) ==
    /\ pc[r] = "ask"
    /\ OPENAI_API_KEY = <<>>
    /\ IF impl = "app"
       THEN /\ answer' = [answer EXCEPT ![r] = Echo(Prompt(r))]
            /\ pc' = [pc EXCEPT ![r] = "truncate"]
            /\ Step(r, "ask_openai")
            /\ UNCHANGED response
       ELSE /\ answer' = [answer EXCEPT ![r] = NotConfiguredText]
            /\ Finish(r, TextReply(impl, NotConfiguredText, user_query[r]))
            /\ Step(r, "respond")
    /\ UNCHANGED <<config, endpoint, stream, cached_data, sig_header, raw, body, user_query, upstream>>

\* With a key: ask_openai sends the one outbound request and blocks on it.
AskSend(r) ==
    /\ pc[r] = "ask"
    /\ OPENAI_API_KEY # <<>>
    /\ pc' = [pc EXCEPT ![r] = "waiting"]
    /\ upstream' = [upstream EXCEPT ![r] = Outcome("sent", "", Prompt(r))]
    /\ Step(r, "post")
    /\ UNCHANGED <<config, endpoint, stream, cached_data, sig_header, raw, body, user_query, answer,
                   response>>

\* The endpoint answers, fails or times out; ask_openai returns or raises.
AskReturn(r) ==
    /\ pc[r] = "waiting"
    /\ \E up \in endpoint :
          LET res == CompletionResult(up)
          IN  /\ upstream' = [upstream EXCEPT ![r] = up]
              /\ IF res.exc # ""
                 THEN /\ Finish(r, Unhandled(res.exc))
                      /\ UNCHANGED answer
                 ELSE /\ answer' = [answer EXCEPT ![r] = res.v]
                      /\ pc' = [pc EXCEPT ![r] = "truncate"]
                      /\ UNCHANGED response
    /\ Step(r, "ask_openai")
    /\ UNCHANGED <<config, endpoint, stream, cached_data, sig_header, raw, body, user_query>>

\* answer = answer[:limit]; return jsonify({"text": answer, ...})
Respond(r) ==
    /\ pc[r] = "truncate"
    /\ Finish(r, TextReply(impl, Slice(answer[r], ReplyLimit), user_query[r]))
    /\ Step(r, "respond")
    /\ UNCHANGED <<config, endpoint, stream, cached_data, sig_header, raw, body, user_query, answer,
                   upstream>>

Handler(r) ==
    \/ GetData(r)
    \/ Verify(r)
    \/ Parse(r)
    \/ Extract(r)
    \/ AskUnconfigured(r)
    \/ AskSend(r)
    \/ AskReturn(r)
    \/ Respond(r)

Next == \E r \in Reqs : Handler(r)

(***************************************************************************)
(* Startup and the arrival of requests.                                    *)
(***************************************************************************)
EnvSecrets == { <<>>, <<" ">>, <<"k">> }

EnvApiKeys == { <<>>, <<"s", "k">> }

\* The module-level assignments: the configuration, read from the environment.
Startup(secrets, keys, lens) ==
    /\ impl \in {"app", "qpp"}
    /\ \E e \in secrets : WEBHOOK_SECRET = ReadSecret(impl, e)
    /\ \E e \in keys : OPENAI_API_KEY = ReadApiKey(impl, e)
    /\ MAX_REPLY_LEN \in (IF impl = "app" THEN lens ELSE {QppReplyLen})

\* The requests of `active` have arrived; the others never do.
Arrived(active) ==
    /\ pc = [r \in Reqs |-> IF r \in active THEN "start" ELSE "unused"]
    /\ cached_data = [r \in Reqs |-> NoCache]
    /\ raw = [r \in Reqs |-> <<>>]
    /\ body = [r \in Reqs |-> NoDoc]
    /\ user_query = [r \in Reqs |-> <<>>]
    /\ answer = [r \in Reqs |-> <<>>]
    /\ upstream = [r \in Reqs |-> NoOutcome]
    /\ response = [r \in Reqs |-> NoResponse]
    /\ trace = [r \in Reqs |-> <<>>]

Init ==
    /\ Startup(EnvSecrets, EnvApiKeys, ReplyLens)
    /\ Arrived({1})
    /\ endpoint = Outcomes
    /\ \E b \in RawBodies :
          /\ stream = [r \in Reqs |-> IF r = 1 THEN b ELSE <<>>]
          /\ \E hd \in SigHeaders(WEBHOOK_SECRET, b) :
                sig_header = [r \in Reqs |-> IF r = 1 THEN hd ELSE Header(FALSE, <<>>)]

Spec == Init /\ [][Next]_vars

(***************************************************************************)
(* extract_user_query on its own: the payload is drawn from every          *)
(* combination of member values below and handed to the extraction step.   *)
(***************************************************************************)
TopValues ==
    { AbsentVal, S(NullLeaf), S(NumLeaf(7)), S(StrLeaf(<<>>)), S(StrLeaf(<<" ", "a">>)),
      S(StrLeaf(<<"b", " ">>)) }

NestedValues ==
    { AbsentVal, S(NullLeaf), S(BoolLeaf(FALSE)), S(StrLeaf(<<"x">>)), S(ArrLeaf(1)),
      ObjVal(AbsentLeaf, AbsentLeaf), ObjVal(NumLeaf(7), AbsentLeaf),
      ObjVal(AbsentLeaf, NullLeaf), ObjVal(AbsentLeaf, NumLeaf(7)),
      ObjVal(AbsentLeaf, StrLeaf(<<" ">>)), ObjVal(AbsentLeaf, StrLeaf(<<"m", " ">>)),
      ObjVal(NumLeaf(7), StrLeaf(<<" ", "n">>)) }

InitExtract ==
    /\ Startup({<<>>}, {<<>>}, {QppReplyLen})
    /\ endpoint = Outcomes
    /\ pc = [r \in Reqs |-> IF r = 1 THEN "extract" ELSE "unused"]
    /\ stream = [r \in Reqs |-> <<>>]
    /\ cached_data = [r \in Reqs |-> NoCache]
    /\ sig_header = [r \in Reqs |-> Header(FALSE, <<>>)]
    /\ raw = [r \in Reqs |-> <<>>]
    /\ \E q \in TopValues, t \in TopValues, c \in TopValues,
          m \in NestedValues, nl \in NestedValues :
          body = [r \in Reqs |-> IF r = 1 THEN Payload(q, t, c, m, nl) ELSE NoDoc]
    /\ user_query = [r \in Reqs |-> <<>>]
    /\ answer = [r \in Reqs |-> <<>>]
    /\ upstream = [r \in Reqs |-> NoOutcome]
    /\ response = [r \in Reqs |-> NoResponse]
    /\ trace = [r \in Reqs |-> <<>>]

NextExtract == \E r \in Reqs : Extract(r)

SpecExtract == InitExtract /\ [][NextExtract]_vars

(***************************************************************************)
(* Several requests in flight at once, their steps interleaved.            *)
(***************************************************************************)
ConcBodies ==
    { Dumps(Payload(AbsentVal, S(StrLeaf(<<"a">>)), AbsentVal, AbsentVal, AbsentVal)),
      Dumps(Payload(S(StrLeaf(<<" ", "q", " ">>)), AbsentVal, AbsentVal, AbsentVal, AbsentVal)) }

ConcOutcomes == { Outcome("status", "", <<>>), Outcome("json", "content", <<" ", "h", "i", " ">>) }

InitConc ==
    /\ Startup({<<"k">>}, EnvApiKeys, {QppReplyLen})
    /\ endpoint = ConcOutcomes
    /\ Arrived(Reqs)
    /\ stream \in [Reqs -> ConcBodies]
    /\ sig_header \in [Reqs -> {Header(FALSE, <<>>)} \cup
                               { Header(TRUE, Hmac(WEBHOOK_SECRET, b)) : b \in ConcBodies }]

SpecConc == InitConc /\ [][Next]_vars

(***************************************************************************)
(* Properties.                                                             *)
(***************************************************************************)
Done(r) == pc[r] = "done"

Took(r, name) == \E i \in 1..Len(trace[r]) : trace[r][i] = name

\* The extraction step has run for request r.
Extracted(r) == Took(r, "extract_user_query")

\* The candidate locations in the documented order; a parent that is missing
\* or not an object counts as absent.
DocumentedNested(parent) == IF parent.t = "obj" THEN parent.o.text ELSE AbsentLeaf

DocumentedCandidates(payload) ==
    <<TopLevel(payload.p.query), TopLevel(payload.p.text), TopLevel(payload.p.content),
      DocumentedNested(payload.p.message), DocumentedNested(payload.p.nlpResult)>>

QualifyingAt(payload) ==
    { i \in 1..5 : LET c == DocumentedCandidates(payload)[i]
                   IN  c.t = "str" /\ Strip(c.s) # <<>> }

FirstDocumented(payload) ==
    LET i == CHOOSE i \in QualifyingAt(payload) : \A j \in QualifyingAt(payload) : i <= j
    IN  Strip(DocumentedCandidates(payload)[i].s)

\* C1: in both variants, for every object payload with a qualifying candidate,
\* what extraction returns is the trimmed value of the first one in the order
\* query, text, content, message.text, nlpResult.text.
C1_DocumentedPriority ==
    \A r \in Reqs :
        (Extracted(r) /\ body[r].t = "obj" /\ QualifyingAt(body[r]) # {}
                      /\ response[r].kind # "unhandled")
            => user_query[r] = Slice(FirstDocumented(body[r]), QueryMaxLen)

\* C5: for every object payload in which no candidate location holds a string
\* that is non-empty after trimming, extraction returns the JSON serialization
\* of the whole payload.
C5_FallbackIsSerialization ==
    \A r \in Reqs :
        (Extracted(r) /\ body[r].t = "obj" /\ QualifyingAt(body[r]) = {})
            => /\ response[r].kind # "unhandled"
               /\ user_query[r] = Slice(Dumps(body[r]), QueryMaxLen)

\* C7: for every object payload, whatever the JSON type of message and
\* nlpResult, extraction raises no error and returns a string.
C7_ExtractionNeverRaises ==
    \A r \in Reqs :
        (Extracted(r) /\ body[r].t = "obj") => response[r].kind # "unhandled"

\* What verify_signature did for request r, read off the handler's course.
VerifyOutcome(r) ==
    IF ~Took(r, "verify_signature") THEN "pending"
    ELSE IF Done(r) /\ Len(trace[r]) = 2
         THEN IF response[r].kind = "unhandled" THEN "raised" ELSE "false"
    ELSE "true"

GoodSignature(r) ==
    sig_header[r].present /\ sig_header[r].v = Hmac(WEBHOOK_SECRET, raw[r])

\* C2: verify_signature returns a boolean for every body, header and secret:
\* true when the secret is empty or the header is the hex digest of the body,
\* false for every other header, absent, empty or of any content.
C2_VerifyIsBoolean ==
    \A r \in Reqs :
        Took(r, "verify_signature")
            => VerifyOutcome(r) =
                  (IF WEBHOOK_SECRET = <<>> \/ GoodSignature(r) THEN "true" ELSE "false")

\* C3: a request whose signature does not verify ends with 401 invalid
\* signature right after the check: its body is never parsed, nothing is
\* extracted and no outbound call is made, whatever the body holds.
C3_BadSignatureEnds401 ==
    \A r \in Reqs :
        (Took(r, "verify_signature") /\ WEBHOOK_SECRET # <<>> /\ ~GoodSignature(r))
            => /\ response[r] = JsonError(401, "invalid signature")
               /\ trace[r] = <<"get_data", "verify_signature">>

\* The outcomes of the outbound call that are failures: timeout, transport
\* error, non-2xx status, a body that is not JSON, JSON of an unexpected shape.
FailedOutcome(up) ==
    \/ up.kind \in {"timeout", "transport", "status", "not_json"}
    \/ /\ up.kind = "json"
       /\ up.shape \in {"array", "choices_null", "choices_empty", "message_null",
                        "content_null", "content_number"}

\* C4: with a key configured, when the outbound call fails in any way
\* ask_openai raises nothing and returns a failure description, and the handler
\* answers 200 with that description, cut to the limit, in the text field.
C4_UpstreamFailureIsText ==
    \A r \in Reqs :
        (Took(r, "ask_openai") /\ FailedOutcome(upstream[r]))
            => /\ response[r].kind # "unhandled"
               /\ IsPrefix(FailPrefix, answer[r])
               /\ Len(answer[r]) > Len(FailPrefix)
               /\ Done(r) => response[r] =
                                TextReply(impl, Slice(answer[r], ReplyLimit), user_query[r])

C4_Witness ==
    \E r \in Reqs :
        /\ Done(r)
        /\ upstream[r] = Outcome("json", "choices_empty", <<>>)
        /\ response[r].status = 200
        /\ response[r].text = FailPrefix \o ExcText("IndexError")

\* C6 as stated: for every configured maximum reply length, the text of a 200
\* response is no longer than that maximum and is a prefix of the answer.
C6_TextWithinLimit ==
    \A r \in Reqs :
        (Done(r) /\ response[r].status = 200)
            => /\ Len(response[r].text) <= ReplyLimit
               /\ IsPrefix(response[r].text, answer[r])

\* C6, amended: for every configured maximum reply length that is not
\* negative, the text of a 200 response is no longer than that maximum; for
\* every configured value it is a prefix of the answer.
C6_TextWithinNonNegativeLimit ==
    \A r \in Reqs :
        (Done(r) /\ response[r].status = 200)
            => /\ ReplyLimit >= 0 => Len(response[r].text) <= ReplyLimit
               /\ IsPrefix(response[r].text, answer[r])

C6_Witness ==
    \E r \in Reqs :
        /\ Done(r)
        /\ response[r].status = 200
        /\ ReplyLimit > 0
        /\ Len(answer[r]) > ReplyLimit
        /\ Len(response[r].text) = ReplyLimit

\* C8: every callback request ends with one of the documented JSON responses
\* (200 with text, 401, 400, or a generic JSON 500); no exception leaves the
\* handler.
C8_DocumentedResponsesOnly ==
    \A r \in Reqs : Done(r) => response[r].kind \in {"text", "error"}

\* The response to a request handled alone: the handler run start to end on
\* body b and header hd, the endpoint answering its call with up.
AloneResponse(b, hd, up) ==
    LET v == verify_signature(b, hd)
        parsed == json_loads(IF RawCache THEN b ELSE <<>>)
        value == IF parsed.ok /\ TruthyDoc(parsed.doc) THEN parsed.doc ELSE EmptyObject
        q == extract_user_query(impl, value)
        cut == Slice(q.v, QueryMaxLen)
        res == CompletionResult(up)
    IN  IF v.exc # "" THEN Unhandled(v.exc)
        ELSE IF ~v.ok THEN JsonError(401, "invalid signature")
        ELSE IF ~parsed.ok /\ impl = "qpp" THEN JsonError(400, "bad json")
        ELSE IF q.exc # "" THEN Unhandled(q.exc)
        ELSE IF cut = <<>>
             THEN IF impl = "app" THEN TextReply(impl, NoInputText, <<>>)
                  ELSE JsonError(400, "empty query")
        ELSE IF OPENAI_API_KEY = <<>>
             THEN IF impl = "app" THEN TextReply(impl, Slice(Echo(cut), ReplyLimit), cut)
                  ELSE TextReply(impl, NotConfiguredText, cut)
        ELSE IF res.exc # "" THEN Unhandled(res.exc)
        ELSE TextReply(impl, Slice(res.v, ReplyLimit), cut)

\* The request object and the locals of request r.
Locals(r) ==
    <<pc[r], stream[r], cached_data[r], sig_header[r], raw[r], body[r], user_query[r],
      answer[r], upstream[r], response[r], trace[r]>>

\* C9: with any number of requests in flight, in any interleaving, no step
\* writes the configuration, a step touches the state of one request only, and
\* each response is the one the request would have got handled alone.
C9_RequestsIndependent ==
    /\ [](\A r \in Reqs :
            Done(r) => response[r] = AloneResponse(raw[r], sig_header[r], upstream[r]))
    /\ [][/\ config' = config
          /\ \E r \in Reqs : \A q \in Reqs \ {r} : Locals(q)' = Locals(q)]_vars

C9_Witness ==
    \E r, q \in Reqs :
        /\ r # q
        /\ Done(r) /\ response[r].status = 200 /\ Took(r, "post")
        /\ pc[q] \in {"ask", "waiting", "truncate"}
        /\ user_query[q] # user_query[r]

EmptyObjectText == <<"{", "}">>

\* C10: the extracted query, once cut, is never empty, so the empty-query
\* reply is never sent; and in app.py a body that is empty or not JSON becomes
\* the empty object, whose text "{}" is the prompt given to ask_openai.
C10_QueryNeverEmpty ==
    \A r \in Reqs :
        /\ pc[r] \in {"ask", "waiting", "truncate"} => user_query[r] # <<>>
        /\ Done(r) =>
              /\ response[r] # JsonError(400, "empty query")
              /\ response[r].text # NoInputText
              /\ (Extracted(r) /\ response[r].kind # "unhandled") => user_query[r] # <<>>
        /\ (impl = "app" /\ raw[r] \in MalformedBodies /\ Took(r, "get_json"))
              => /\ body[r] = EmptyObject
                 /\ Extracted(r) => user_query[r] = EmptyObjectText
                 /\ pc[r] = "waiting" => upstream[r] = Outcome("sent", "", EmptyObjectText)
                 /\ (Took(r, "ask_openai") /\ OPENAI_API_KEY = <<>>)
                       => answer[r] = EchoPrefix \o EmptyObjectText

C10_Witness ==
    \E r \in Reqs :
        /\ impl = "app"
        /\ raw[r] = <<"h", "i">>
        /\ pc[r] = "waiting"
        /\ upstream[r].content = EmptyObjectText

====
